---- MODULE Spec2Model ----
(***************************************************************************)
(* Model of the Aletheia WhatsApp bot (src/whatsapp-bot/main.go): the      *)
(* message relay (eventHandler, handleMessage, handleImageMessage,         *)
(* analyzeText, analyzeImage, sendMessage), the card formatter             *)
(* (formatResponse) and the process life cycle of main with its signal     *)
(* handling.                                                               *)
(*                                                                         *)
(* The specifications share the variables:                                 *)
(*   Spec / LiveSpec  the whole process: main, the signals and the handler *)
(*                    of one event (LiveSpec adds the fairness of main);   *)
(*   ConcSpec         NumEvents event handlers running concurrently in a   *)
(*                    running bot;                                         *)
(*   HandlerSpec      one handler invocation over the full input domain    *)
(*                    (message payloads, backend replies);                 *)
(*   FormatSpec       formatResponse over the full verdict domain.         *)
(***************************************************************************)
EXTENDS Integers, Sequences, FiniteSets

\* ------------------------------------------------------------------ bounds

\* Number of inbound message events whose handlers may run concurrently.
NumEvents == 2

\* Longest text, in characters, of the full input domain.
MaxChars == 10

\* Longest evidence / sources_checked list of the full verdict domain.
MaxList == 4

\* A confidence is the exact rational num / ConfScale.
ConfScale == 12

\* Confidences range from -ConfOver/ConfScale to 1 + ConfOver/ConfScale.
ConfOver == 3

\* Signals (SIGINT / SIGTERM) delivered to the process in one run.
MaxSignals == 2

\* "code" events the QR channel yields before it ends.
MaxQRCodes == 1

\* ------------------------------------------------------- program constants

\* len(text) < 10: the length gate of handleMessage.
MinTextLen == 10

\* for i := 0; i < 10; i++: the cells of the confidence bar.
BarCells == 10

\* if i >= 3 { break }: the bullets shown per list.
MaxBullets == 3

\* http.StatusOK
StatusOK == 200

\* The longest UTF-8 encoding of one character, in bytes.
MaxCharWidth == 4

FullBlock == "FULL_BLOCK"
EmptyBlock == "LIGHT_SHADE"

ErrBackendText ==
  "Could not connect to the analysis backend. Please try again later."
ErrDownloadText == "Could not download the image. Please try again."
ErrImageText == "Could not analyze the image. Please try again later."

\* ------------------------------------------------------------ arithmetic

Min(a, b) == IF a <= b THEN a ELSE b

\* Go's float-to-int conversion: truncation toward zero of num / den, den > 0.
Trunc(num, den) == IF num >= 0 THEN num \div den ELSE -((-num) \div den)

\* fmt's %.0f: num / den rounded to the nearest integer, ties to even.
RoundHalfEven(num, den) ==
  LET a == IF num >= 0 THEN num ELSE -num
      q == a \div den
      r == a % den
      m == IF 2 * r > den THEN q + 1
           ELSE IF 2 * r < den THEN q
           ELSE IF q % 2 = 0 THEN q ELSE q + 1
  IN  IF num >= 0 THEN m ELSE -m

\* ------------------------------------------------------------ the verdict

\* AnalyzeResponse.  confidence is the numerator of confidence / ConfScale.
AnalyzeResponse(confs, lists, strs) ==
  [is_misinformation : BOOLEAN,
   confidence : confs,
   is_news : BOOLEAN,
   summary : strs,
   evidence : lists,
   sources_checked : lists,
   recommendation : strs]

\* The zero value of AnalyzeResponse (var result AnalyzeResponse).
ZeroResponse ==
  [is_misinformation |-> FALSE, confidence |-> 0, is_news |-> FALSE,
   summary |-> "", evidence |-> <<>>, sources_checked |-> <<>>,
   recommendation |-> ""]

Items == {"a", "b"}

SeqsUpTo(S, n) == UNION {[1..k -> S] : k \in 0..n}

\* The full verdict domain of FormatSpec.
Confidences == (0 - ConfOver)..(ConfScale + ConfOver)
FormatVerdicts ==
  {v \in AnalyzeResponse(Confidences, SeqsUpTo(Items, MaxList), {"", "s"}) :
     /\ v.is_news
     /\ (v.summary = "") = (v.recommendation = "")}

\* ------------------------------------------------------- formatResponse

\* One line of an outbound text.
Line(tag, s) == [tag |-> tag, s |-> s, bar |-> <<>>, pct |-> 0]

\* filled := int(result.Confidence * 10)
FilledRounded(conf) == RoundHalfEven(conf * BarCells, ConfScale)
Filled(conf) == Trunc(conf * BarCells, ConfScale)

\* The loop building the bar: cell i (from 0) is full iff i < filled.
Bar(conf) ==
  [i \in 1..BarCells |-> IF i - 1 < Filled(conf) THEN FullBlock ELSE EmptyBlock]

\* result.Confidence > 0.7
HighConfidence(conf) == conf * 10 > 7 * ConfScale

Status(result) ==
  IF result.is_misinformation
  THEN IF HighConfidence(result.confidence)
       THEN "LIKELY MISINFORMATION" ELSE "POTENTIALLY MISLEADING"
  ELSE "APPEARS CREDIBLE"

\* for i, e := range list { if i >= 3 { break }; response += bullet(e) }
RECURSIVE BulletLoop(_, _, _)
BulletLoopOffByOne(list, i, acc) ==
  IF i >= Len(list) \/ i > MaxBullets THEN acc
  ELSE BulletLoop(list, i + 1, Append(acc, Line("bullet", list[i + 1])))
BulletLoop(list, i, acc) ==
  IF i >= Len(list) \/ i >= MaxBullets THEN acc
  ELSE BulletLoop(list, i + 1, Append(acc, Line("bullet", list[i + 1])))

\* if len(list) > 0 { response += header; bullets }
Section(header, list) ==
  IF Len(list) > 0
  THEN <<Line(header, "")>> \o BulletLoop(list, 0, <<>>)
  ELSE <<>>

Paragraph(header, s) == IF s # "" THEN <<Line(header, s)>> ELSE <<>>

formatResponse(result) ==
  <<Line("status", Status(result)),
    [tag |-> "confidence", s |-> "", bar |-> Bar(result.confidence),
     pct |-> RoundHalfEven(result.confidence * 100, ConfScale)]>>
  \o Paragraph("summary", result.summary)
  \o Section("evidence", result.evidence)
  \o Section("sources", result.sources_checked)
  \o Paragraph("recommendation", result.recommendation)
  \o <<Line("footer", "")>>

\* The fixed error texts of handleMessage and handleImageMessage.
ErrorReply(text) == <<Line("error", text)>>

\* ------------------------------------------------------- inbound events

\* A string, by what len() and a character count see of it: `chars`
\* characters, each `width` bytes long in UTF-8.
Text(chars, width) == [chars |-> chars, bytes |-> chars * width]
EmptyText == Text(0, 1)
Texts == {Text(c, w) : c \in 0..MaxChars, w \in 1..MaxCharWidth}

\* len(text): Go's len of a string counts bytes.
LenChars(text) == text.chars
len(text) == text.bytes

\* msg.GetExtendedTextMessage(): nil, or a message holding a text.
NoExtended == [present |-> FALSE, text |-> EmptyText]
Extendeds(texts) == {NoExtended} \cup {[present |-> TRUE, text |-> t] : t \in texts}

\* waE2E.Message, the fields the bot reads: ImageMessage (nil or not),
\* Conversation, ExtendedTextMessage.
Messages(texts) ==
  [image : BOOLEAN, conversation : texts, extended : Extendeds(texts)]

\* events.Message.Info: ID, Chat, Sender, IsFromMe.  A direct chat has the
\* sender's JID, a group chat its own.
Users == {"alice", "bob"}
Infos(e) ==
  {i \in [id : {e}, chat : Users \cup {"group"}, sender : Users,
          isFromMe : BOOLEAN] :
     i.chat = i.sender \/ i.chat = "group"}

Events == 1..NumEvents

NoEvent ==
  [info |-> [id |-> 0, chat |-> "", sender |-> "", isFromMe |-> FALSE],
   message |-> [image |-> FALSE, conversation |-> EmptyText,
                extended |-> NoExtended]]

\* The events of HandlerSpec: every payload, one chat.
HandlerEvents(e) ==
  {v \in [info : Infos(e), message : Messages(Texts)] :
     v.info.chat = "group" /\ v.info.sender = "alice"}

\* The events of Spec and ConcSpec: a group chat with both users and one
\* direct chat, and the payloads that differ in the path they take (image,
\* short text, long text; a single payload for the bot's own messages).
ConcEvents(e) ==
  {v \in [info : Infos(e),
          message : Messages({EmptyText, Text(MinTextLen, 1)})] :
     /\ v.info.chat # "alice"
     /\ v.message.extended = NoExtended
     /\ v.message.image => v.message.conversation = EmptyText
     /\ v.info.isFromMe => ~v.message.image /\ v.message.conversation # EmptyText}

\* ------------------------------------------------------- backend replies

\* What one call of analyzeText / analyzeImage meets: built = the request
\* was built and handed to the HTTP client; err = building it, or the
\* client, returned an error; status; decodable = the body decodes into an
\* AnalyzeResponse; verdict.
Reply(built, err, status, decodable, verdict) ==
  [built |-> built, err |-> err, status |-> status,
   decodable |-> decodable, verdict |-> verdict]
NoReply == Reply(FALSE, FALSE, 0, FALSE, ZeroResponse)

Replies(verdicts) ==
  {Reply(FALSE, TRUE, 0, FALSE, ZeroResponse),
   Reply(TRUE, TRUE, 0, FALSE, ZeroResponse),
   Reply(TRUE, FALSE, 404, FALSE, ZeroResponse),
   Reply(TRUE, FALSE, 500, FALSE, ZeroResponse),
   Reply(TRUE, FALSE, StatusOK, FALSE, ZeroResponse)}
  \cup {Reply(TRUE, FALSE, StatusOK, TRUE, v) : v \in verdicts}

HandlerVerdicts ==
  {v \in AnalyzeResponse({ConfScale \div 2},
                         {<<>>, <<"a", "b", "a", "b">>}, {"s"}) :
     v.evidence = v.sources_checked}
HandlerReplies == Replies(HandlerVerdicts)

ConcReplies ==
  {r \in Replies({v \in HandlerVerdicts :
                    ~v.is_misinformation /\ v.evidence = <<>>}) :
     ~r.err /\ r.status # 404 /\ (r.status = StatusOK => r.decodable)}

\* ---------------------------------------------------------------- state

VARIABLES
  mainPc,           \* position of main
  qrCodes,          \* "code" events the QR channel has yielded
  loggedIn,         \* the device is paired: message events may arrive
  connected,        \* client.Connect() succeeded, Disconnect() not yet called
  disconnectCalled, \* client.Disconnect() has been called
  sigRegistered,    \* signal.Notify(c, ...) has been called
  sigChan,          \* signals buffered in c (capacity 1)
  sigCount,         \* signals delivered to the process
  sigCaught,        \* a signal was delivered after signal.Notify
  pc,               \* per event: position of its handler
  evt,              \* per event: the events.Message handed to eventHandler
  resp,             \* per event: what the backend exchange yielded
  text,             \* per event: the text handed to sendMessage
  downloads,        \* per event: client.Download calls
  data,             \* per event: client.Download's result: none, ok, err
  requests,         \* per event: the endpoints of the HTTP requests issued
  outbox,           \* the client.SendMessage calls, in order
  fmtPc, fmtIn, fmtOut  \* FormatSpec: formatResponse's input and output

mainVars == <<mainPc, qrCodes, loggedIn, connected, disconnectCalled,
              sigRegistered, sigChan, sigCount, sigCaught>>
handlerVars == <<pc, evt, resp, text, downloads, data, requests, outbox>>
fmtVars == <<fmtPc, fmtIn, fmtOut>>
vars == <<mainVars, handlerVars, fmtVars>>

\* The process runs: it neither returned from main, called os.Exit, nor was
\* terminated by a signal.
Alive == mainPc \notin {"exited", "failed", "killed"}

HandlersIdle ==
  /\ pc = [e \in Events |-> "idle"]
  /\ evt = [e \in Events |-> NoEvent]
  /\ resp = [e \in Events |-> NoReply]
  /\ text = [e \in Events |-> <<>>]
  /\ downloads = [e \in Events |-> 0]
  /\ data = [e \in Events |-> "none"]
  /\ requests = [e \in Events |-> <<>>]
  /\ outbox = <<>>

FormatOff == fmtPc = "off" /\ fmtIn = ZeroResponse /\ fmtOut = <<>>

\* ------------------------------------------------------------- handlers

\* handleMessage's text: Conversation if non-empty, else the extended
\* text message's text if there is one, else "".
ExtractText(msg) ==
  IF msg.conversation # EmptyText THEN msg.conversation
  ELSE IF msg.extended.present THEN msg.extended.text
  ELSE EmptyText

TooShortOffByOne(t) == len(t) < MinTextLen - 1
TooShort(t) == len(t) < MinTextLen

\* eventHandler, case *events.Message, and handleMessage up to its first
\* blocking call.  (The other event types are only printed.)
eventHandlerNoSelfCheck(e, events) ==
  /\ Alive /\ connected /\ loggedIn
  /\ pc[e] = "idle"
  /\ \E v \in events :
       /\ evt' = [evt EXCEPT ![e] = v]
       /\ pc' = [pc EXCEPT ![e] =
                   IF v.message.image THEN "download"
                   ELSE IF TooShort(ExtractText(v.message)) THEN "done"
                   ELSE "analyzeText"]
  /\ UNCHANGED <<resp, text, downloads, data, requests, outbox, mainVars,
                 fmtVars>>
eventHandler(e, events) ==
  /\ Alive /\ connected /\ loggedIn
  /\ pc[e] = "idle"
  /\ \E v \in events :
       /\ evt' = [evt EXCEPT ![e] = v]
       /\ pc' = [pc EXCEPT ![e] =
                   IF v.info.isFromMe THEN "done"
                   ELSE IF v.message.image THEN "download"
                   ELSE IF TooShort(ExtractText(v.message)) THEN "done"
                   ELSE "analyzeText"]
  /\ UNCHANGED <<resp, text, downloads, data, requests, outbox, mainVars,
                 fmtVars>>

\* handleImageMessage: client.Download
Download(e) ==
  /\ Alive
  /\ pc[e] = "download"
  /\ downloads' = [downloads EXCEPT ![e] = @ + 1]
  /\ \E ok \in BOOLEAN :
       IF ok
       THEN /\ data' = [data EXCEPT ![e] = "ok"]
            /\ pc' = [pc EXCEPT ![e] = "analyzeImage"]
            /\ UNCHANGED text
       ELSE /\ data' = [data EXCEPT ![e] = "err"]
            /\ pc' = [pc EXCEPT ![e] = "send"]
            /\ text' = [text EXCEPT ![e] = ErrorReply(ErrDownloadText)]
  /\ UNCHANGED <<evt, resp, requests, outbox, mainVars, fmtVars>>

\* analyzeText / analyzeImage return (result, nil) iff the exchange gave
\* status 200 and a decodable body.
Succeeded(r) == ~r.err /\ r.status = StatusOK /\ r.decodable

\* handleImageMessage after the download: analyzeImage, then the reply.
ImageReplyIgnoresDecodeError(r) ==
  IF r.err \/ r.status # StatusOK THEN ErrorReply(ErrImageText)
  ELSE formatResponse(r.verdict)
ImageReply(r) ==
  IF ~Succeeded(r) THEN ErrorReply(ErrImageText)
  ELSE formatResponse(r.verdict)

analyzeImage(e, replies) ==
  /\ Alive
  /\ pc[e] = "analyzeImage"
  /\ \E r \in replies :
       /\ resp' = [resp EXCEPT ![e] = r]
       /\ requests' = [requests EXCEPT ![e] =
                         IF r.built THEN Append(@, "/analyze/image") ELSE @]
       /\ text' = [text EXCEPT ![e] = ImageReply(r)]
       /\ pc' = [pc EXCEPT ![e] = IF ImageReply(r) = <<>> THEN "done" ELSE "send"]
  /\ UNCHANGED <<evt, downloads, data, outbox, mainVars, fmtVars>>

\* handleMessage after the length gate: analyzeText, then the reply
\* (none when the verdict is not news).
TextReplySameAsImage(r) ==
  IF ~Succeeded(r) THEN ErrorReply(ErrImageText)
  ELSE IF ~r.verdict.is_news THEN <<>>
  ELSE formatResponse(r.verdict)
TextReply(r) ==
  IF ~Succeeded(r) THEN ErrorReply(ErrBackendText)
  ELSE IF ~r.verdict.is_news THEN <<>>
  ELSE formatResponse(r.verdict)

\* json.Marshal of an AnalyzeRequest cannot fail: the request is always built.
analyzeTextRetry(e, replies) ==
  /\ Alive
  /\ pc[e] = "analyzeText"
  /\ \E r \in {x \in replies : x.built} :
       /\ resp' = [resp EXCEPT ![e] = r]
       /\ requests' = [requests EXCEPT ![e] =
                         IF Succeeded(r) THEN Append(@, "/analyze/text")
                         ELSE @ \o <<"/analyze/text", "/analyze/text">>]
       /\ text' = [text EXCEPT ![e] = TextReply(r)]
       /\ pc' = [pc EXCEPT ![e] = IF TextReply(r) = <<>> THEN "done" ELSE "send"]
  /\ UNCHANGED <<evt, downloads, data, outbox, mainVars, fmtVars>>
analyzeText(e, replies) ==
  /\ Alive
  /\ pc[e] = "analyzeText"
  /\ \E r \in {x \in replies : x.built} :
       /\ resp' = [resp EXCEPT ![e] = r]
       /\ requests' = [requests EXCEPT ![e] = Append(@, "/analyze/text")]
       /\ text' = [text EXCEPT ![e] = TextReply(r)]
       /\ pc' = [pc EXCEPT ![e] = IF TextReply(r) = <<>> THEN "done" ELSE "send"]
  /\ UNCHANGED <<evt, downloads, data, outbox, mainVars, fmtVars>>

\* The message sendMessage builds for evt: addressed to evt.Info.Chat,
\* quoting evt.Info.ID, evt.Info.Sender and evt.Message.
OutboundToSender(v, t, by, ok) ==
  [to |-> v.info.sender, stanzaID |-> v.info.id,
   participant |-> v.info.sender, quoted |-> v.message,
   text |-> t, by |-> by, ok |-> ok]
Outbound(v, t, by, ok) ==
  [to |-> v.info.chat, stanzaID |-> v.info.id,
   participant |-> v.info.sender, quoted |-> v.message,
   text |-> t, by |-> by, ok |-> ok]

\* sendMessage: one client.SendMessage call; its error is only logged.
\* The call fails when the client is no longer connected.
sendMessage(e) ==
  /\ Alive
  /\ pc[e] = "send"
  /\ \E ok \in BOOLEAN :
       /\ ok => connected
       /\ outbox' = Append(outbox, Outbound(evt[e], text[e], e, ok))
  /\ pc' = [pc EXCEPT ![e] = "done"]
  /\ UNCHANGED <<evt, resp, text, downloads, data, requests, mainVars,
                 fmtVars>>

Handler(e, events, replies) ==
  \/ eventHandler(e, events)
  \/ Download(e)
  \/ analyzeImage(e, replies)
  \/ analyzeText(e, replies)
  \/ sendMessage(e)

\* ----------------------------------------------------------- HandlerSpec

\* One event handled by a running, logged-in bot.
HandlerInit ==
  /\ mainPc = "wait" /\ qrCodes = 0 /\ loggedIn = TRUE /\ connected = TRUE
  /\ disconnectCalled = FALSE /\ sigRegistered = TRUE /\ sigChan = 0
  /\ sigCount = 0 /\ sigCaught = FALSE
  /\ HandlersIdle /\ FormatOff

HandlerNext == Handler(1, HandlerEvents(1), HandlerReplies)

HandlerSpec == HandlerInit /\ [][HandlerNext]_vars

\* ------------------------------------------------------------ FormatSpec

FormatInit ==
  /\ mainPc = "wait" /\ qrCodes = 0 /\ loggedIn = TRUE /\ connected = TRUE
  /\ disconnectCalled = FALSE /\ sigRegistered = TRUE /\ sigChan = 0
  /\ sigCount = 0 /\ sigCaught = FALSE
  /\ HandlersIdle
  /\ fmtPc = "call" /\ fmtIn \in FormatVerdicts /\ fmtOut = <<>>

FormatCall ==
  /\ fmtPc = "call"
  /\ fmtOut' = formatResponse(fmtIn)
  /\ fmtPc' = "done"
  /\ UNCHANGED <<fmtIn, mainVars, handlerVars>>

FormatNext == FormatCall

FormatSpec == FormatInit /\ [][FormatNext]_vars

\* ------------------------------------------------------------------ main

\* os.Exit(1) after a failed start-up step.
Fail ==
  /\ mainPc' = "failed"
  /\ UNCHANGED <<qrCodes, loggedIn, connected, disconnectCalled,
                 sigRegistered, sigChan, sigCount, sigCaught>>

Goto(label) ==
  /\ mainPc' = label
  /\ UNCHANGED <<qrCodes, loggedIn, connected, disconnectCalled,
                 sigRegistered, sigChan, sigCount, sigCaught>>

\* sqlstore.New, container.GetFirstDevice: either may fail.
OpenStore ==
  /\ mainPc = "openStore"
  /\ \E ok \in BOOLEAN : IF ok THEN Goto("getDevice") ELSE Fail
  /\ UNCHANGED <<handlerVars, fmtVars>>

GetDevice ==
  /\ mainPc = "getDevice"
  /\ \E ok \in BOOLEAN : IF ok THEN Goto("newClient") ELSE Fail
  /\ UNCHANGED <<handlerVars, fmtVars>>

\* whatsmeow.NewClient, AddEventHandler, and the branch on
\* client.Store.ID == nil.
NewClient ==
  /\ mainPc = "newClient"
  /\ \E paired \in BOOLEAN :
       /\ loggedIn' = paired
       /\ mainPc' = IF paired THEN "connect" ELSE "qrConnect"
  /\ UNCHANGED <<qrCodes, connected, disconnectCalled, sigRegistered,
                 sigChan, sigCount, sigCaught, handlerVars, fmtVars>>

\* client.Connect() in either branch; on error os.Exit(1).
Connect ==
  /\ mainPc \in {"connect", "qrConnect"}
  /\ \E ok \in BOOLEAN :
       IF ok
       THEN /\ connected' = TRUE
            /\ mainPc' = IF mainPc = "qrConnect" THEN "qrLoop" ELSE "notify"
            /\ UNCHANGED <<qrCodes, loggedIn, disconnectCalled, sigRegistered,
                           sigChan, sigCount, sigCaught>>
       ELSE Fail
  /\ UNCHANGED <<handlerVars, fmtVars>>

\* for evt := range qrChan: a "code" event shows a QR code; any other
\* event (success, timeout, error) is printed and the channel then closes.
QRLoop ==
  /\ mainPc = "qrLoop"
  /\ \/ /\ qrCodes < MaxQRCodes
        /\ qrCodes' = qrCodes + 1
        /\ UNCHANGED <<mainPc, loggedIn>>
     \/ /\ \E success \in BOOLEAN : loggedIn' = success
        /\ mainPc' = "notify"
        /\ UNCHANGED qrCodes
  /\ UNCHANGED <<connected, disconnectCalled, sigRegistered, sigChan,
                 sigCount, sigCaught, handlerVars, fmtVars>>

\* c := make(chan os.Signal, 1); signal.Notify(c, os.Interrupt, SIGTERM)
Notify ==
  /\ mainPc = "notify"
  /\ sigRegistered' = TRUE
  /\ mainPc' = "wait"
  /\ UNCHANGED <<qrCodes, loggedIn, connected, disconnectCalled, sigChan,
                 sigCount, sigCaught, handlerVars, fmtVars>>

\* <-c
Wait ==
  /\ mainPc = "wait"
  /\ sigChan > 0
  /\ sigChan' = sigChan - 1
  /\ mainPc' = "disconnect"
  /\ UNCHANGED <<qrCodes, loggedIn, connected, disconnectCalled,
                 sigRegistered, sigCount, sigCaught, handlerVars, fmtVars>>

\* client.Disconnect()
DisconnectOmitted ==
  /\ mainPc = "disconnect"
  /\ mainPc' = "return"
  /\ UNCHANGED <<qrCodes, loggedIn, connected, disconnectCalled, sigRegistered,
                 sigChan, sigCount, sigCaught, handlerVars, fmtVars>>
Disconnect ==
  /\ mainPc = "disconnect"
  /\ disconnectCalled' = TRUE
  /\ connected' = FALSE
  /\ mainPc' = "return"
  /\ UNCHANGED <<qrCodes, loggedIn, sigRegistered, sigChan, sigCount,
                 sigCaught, handlerVars, fmtVars>>

\* main returns: the process exits, whatever its handlers are doing.
Return ==
  /\ mainPc = "return"
  /\ mainPc' = "exited"
  /\ UNCHANGED <<qrCodes, loggedIn, connected, disconnectCalled, sigRegistered,
                 sigChan, sigCount, sigCaught, handlerVars, fmtVars>>

\* SIGINT or SIGTERM is delivered to the running process.  Once
\* signal.Notify has run the signal is queued in c unless c is full;
\* before that the Go runtime's default applies and the process dies.
Signal ==
  /\ Alive
  /\ sigCount < MaxSignals
  /\ sigCount' = sigCount + 1
  /\ IF sigRegistered
     THEN /\ sigChan' = Min(sigChan + 1, 1)
          /\ sigCaught' = TRUE
          /\ UNCHANGED mainPc
     ELSE /\ mainPc' = "killed"
          /\ UNCHANGED <<sigChan, sigCaught>>
  /\ UNCHANGED <<qrCodes, loggedIn, connected, disconnectCalled,
                 sigRegistered, handlerVars, fmtVars>>

main ==
  \/ OpenStore
  \/ GetDevice
  \/ NewClient
  \/ Connect
  \/ QRLoop
  \/ Notify
  \/ Wait
  \/ Disconnect
  \/ Return

\* ------------------------------------------------------------------ Spec

Init ==
  /\ mainPc = "openStore" /\ qrCodes = 0 /\ loggedIn = FALSE
  /\ connected = FALSE /\ disconnectCalled = FALSE /\ sigRegistered = FALSE
  /\ sigChan = 0 /\ sigCount = 0 /\ sigCaught = FALSE
  /\ HandlersIdle /\ FormatOff

\* The whole process: main, the signals, and the handler of one event.
Next ==
  \/ main
  \/ Signal
  \/ Handler(1, ConcEvents(1), ConcReplies)

Spec == Init /\ [][Next]_vars

\* main is a goroutine the scheduler keeps running: each step it can take
\* it eventually takes.
LiveSpec == Spec /\ WF_vars(main)

\* -------------------------------------------------------------- ConcSpec

\* A running, logged-in bot whose event handlers run concurrently, one per
\* inbound event, their steps interleaved in any order.
ConcNext == \E e \in Events : Handler(e, ConcEvents(e), ConcReplies)

ConcSpec == HandlerInit /\ [][ConcNext]_vars

\* =============================================================== claims

SentBy(e) == {i \in 1..Len(outbox) : outbox[i].by = e}

ErrorReplies ==
  {ErrorReply(ErrBackendText), ErrorReply(ErrDownloadText),
   ErrorReply(ErrImageText)}

\* The backend answered the request of event e with a status other than 200.
Non200(e) == resp[e].built /\ ~resp[e].err /\ resp[e].status # StatusOK

\* Image download, the backend request or the decoding failed for event e.
Failed(e) ==
  \/ data[e] = "err"
  \/ resp[e] # NoReply /\ ~Succeeded(resp[e])

\* ------------------------------------------------------------------- C1
\* C1 (as claimed): whenever the backend answered 200 with a verdict whose
\* is_news is false, for a text or an image event, the handler of that
\* event makes no SendMessage call.
C1_NotNewsNoReply ==
  \A e \in Events :
    (Succeeded(resp[e]) /\ ~resp[e].verdict.is_news) => SentBy(e) = {}

\* ------------------------------------------------------------------- C2
\* C2 (as claimed): an event whose message text is shorter than 10
\* characters causes no backend request and no reply.
C2_ShortByCharsNoRequest ==
  \A e \in Events :
    (pc[e] # "idle" /\ LenChars(ExtractText(evt[e].message)) < MinTextLen)
      => (requests[e] = <<>> /\ SentBy(e) = {})

\* C2 (amended): an event that carries no image and whose extracted text is
\* shorter than 10 bytes causes no download, no backend request and no
\* reply: its handler is done at once.
C2_ShortTextNoRequest ==
  \A e \in Events :
    (pc[e] # "idle" /\ ~evt[e].message.image
       /\ len(ExtractText(evt[e].message)) < MinTextLen)
      => (pc[e] = "done" /\ downloads[e] = 0 /\ requests[e] = <<>>
          /\ resp[e] = NoReply /\ SentBy(e) = {})

C2_Witness ==
  \E e \in Events :
    /\ pc[e] = "done" /\ ~evt[e].info.isFromMe /\ ~evt[e].message.image
    /\ evt[e].message.conversation = EmptyText
    /\ evt[e].message.extended.present
    /\ len(evt[e].message.extended.text) = MinTextLen - 1

\* ------------------------------------------------------------------- C3
\* C3 (as claimed): once the handler of an event whose request was answered
\* with a status other than 200 is done, it has sent the generic
\* connection-error message.
C3_Non200ConnectionError ==
  \A e \in Events :
    (Non200(e) /\ pc[e] = "done")
      => \E i \in SentBy(e) : outbox[i].text = ErrorReply(ErrBackendText)

\* C3 (amended): when the backend answers with a status other than 200 the
\* handler goes on to exactly one SendMessage call and ends; the text is
\* the connection-error message for a text message and the image-analysis
\* error message for an image message.
C3_Non200ErrorByKind ==
  \A e \in Events :
    Non200(e) =>
      LET want == IF evt[e].message.image THEN ErrorReply(ErrImageText)
                  ELSE ErrorReply(ErrBackendText)
      IN  /\ pc[e] \in {"send", "done"}
          /\ text[e] = want
          /\ pc[e] = "send" => SentBy(e) = {}
          /\ pc[e] = "done" =>
               /\ Cardinality(SentBy(e)) = 1
               /\ \A i \in SentBy(e) : outbox[i].text = want

C3_Witness ==
  \E e \in Events :
    /\ Non200(e) /\ pc[e] = "done" /\ ~evt[e].message.image
    /\ resp[e].status = 500

\* ------------------------------------------------------------------- C4
\* C4: when the image download, the backend request (request error or
\* status other than 200) or the decoding of the response failed for an
\* event, the handler makes exactly one SendMessage call, with one of the
\* three fixed error texts, and never sends a verdict card for that event.
C4_FailureOneErrorReply ==
  \A e \in Events :
    Failed(e) =>
      /\ pc[e] \in {"send", "done"}
      /\ text[e] \in ErrorReplies
      /\ pc[e] = "send" => SentBy(e) = {}
      /\ pc[e] = "done" => Cardinality(SentBy(e)) = 1
      /\ \A i \in SentBy(e) : outbox[i].text \in ErrorReplies

C4_Witness ==
  \E e \in Events :
    /\ pc[e] = "done" /\ evt[e].message.image /\ data[e] = "ok"
    /\ resp[e].status = StatusOK /\ ~resp[e].decodable
    /\ Cardinality(SentBy(e)) = 1

\* ------------------------------------------------------------------- C5
\* C5: one event causes at most one backend request, whatever its outcome;
\* an event carrying an image goes only to /analyze/image, any other only
\* to /analyze/text.
C5_AtMostOneRequest ==
  \A e \in Events :
    /\ Len(requests[e]) <= 1
    /\ \A i \in 1..Len(requests[e]) :
         requests[e][i] = IF evt[e].message.image THEN "/analyze/image"
                          ELSE "/analyze/text"

C5_Witness ==
  \E e \in Events :
    /\ pc[e] = "done" /\ ~evt[e].message.image
    /\ resp[e].built /\ resp[e].err
    /\ requests[e] = <<"/analyze/text">>

\* ------------------------------------------------------------------- C6
\* C6: an event with IsFromMe set is ignored whatever its payload: no image
\* download, no backend request, no SendMessage call.
C6_SelfIgnored ==
  \A e \in Events :
    evt[e].info.isFromMe =>
      /\ pc[e] = "done"
      /\ downloads[e] = 0 /\ data[e] = "none"
      /\ requests[e] = <<>> /\ resp[e] = NoReply
      /\ SentBy(e) = {}

C6_Witness ==
  \E e \in Events :
    /\ evt[e].info.isFromMe /\ pc[e] = "done"
    /\ evt[e].message.image
    /\ len(evt[e].message.conversation) >= MinTextLen

\* ------------------------------------------------------------------- C7
ConfidenceLines(card) ==
  {i \in 1..Len(card) : card[i].tag = "confidence"}

FullCells(bar) == {i \in 1..Len(bar) : bar[i] = FullBlock}

\* C7: for a confidence in [0,1] the bar formatResponse builds has exactly
\* 10 cells, exactly floor(confidence * 10) of them full, and every full
\* cell precedes every empty one.
C7_BarFloor ==
  (fmtPc = "done" /\ 0 <= fmtIn.confidence /\ fmtIn.confidence <= ConfScale)
    => /\ Cardinality(ConfidenceLines(fmtOut)) = 1
       /\ \A k \in ConfidenceLines(fmtOut) :
            LET bar == fmtOut[k].bar
            IN  /\ Len(bar) = 10
                /\ \A i \in 1..Len(bar) : bar[i] \in {FullBlock, EmptyBlock}
                /\ Cardinality(FullCells(bar))
                     = (fmtIn.confidence * 10) \div ConfScale
                /\ \A i, j \in 1..Len(bar) :
                     (i < j /\ bar[j] = FullBlock) => bar[i] = FullBlock

C7_Witness ==
  /\ fmtPc = "done"
  /\ 0 < fmtIn.confidence /\ fmtIn.confidence < ConfScale
  /\ 2 * ((fmtIn.confidence * 10) % ConfScale) >= ConfScale
  /\ \E k \in ConfidenceLines(fmtOut) :
       Cardinality(FullCells(fmtOut[k].bar)) \in 1..9

\* ------------------------------------------------------------------- C8
\* The bullets shown under a section header: the lines that follow it up to
\* the next line that is no bullet.
RECURSIVE BulletsFrom(_, _)
BulletsFrom(card, i) ==
  IF i > Len(card) \/ card[i].tag # "bullet" THEN <<>>
  ELSE <<card[i].s>> \o BulletsFrom(card, i + 1)

Headers(card, tag) == {i \in 1..Len(card) : card[i].tag = tag}

Shown(card, tag, list) ==
  LET n == Min(Len(list), 3)
  IN  IF Len(list) = 0 THEN Headers(card, tag) = {}
      ELSE /\ Cardinality(Headers(card, tag)) = 1
           /\ \A h \in Headers(card, tag) :
                BulletsFrom(card, h + 1) = SubSeq(list, 1, n)

\* C8: for evidence and sources_checked lists of any length n,
\* formatResponse shows exactly min(n, 3) bullets per list, the first
\* min(n, 3) items in their order, and no section header for an empty list.
C8_ListsTruncated ==
  fmtPc = "done" =>
    /\ Shown(fmtOut, "evidence", fmtIn.evidence)
    /\ Shown(fmtOut, "sources", fmtIn.sources_checked)
    /\ Cardinality({i \in 1..Len(fmtOut) : fmtOut[i].tag = "bullet"})
         = Min(Len(fmtIn.evidence), 3) + Min(Len(fmtIn.sources_checked), 3)

C8_Witness ==
  /\ fmtPc = "done"
  /\ Len(fmtIn.evidence) > 3
  /\ fmtIn.evidence[1] # fmtIn.evidence[2]
  /\ Len(fmtIn.sources_checked) = 0
  /\ Cardinality({i \in 1..Len(fmtOut) : fmtOut[i].tag = "bullet"}) = 3

\* ------------------------------------------------------------------- C9
\* C9 (as claimed): a process that received SIGINT or SIGTERM at any point
\* after its start has called client.Disconnect() by the time it is gone.
C9_AnySignalDisconnects ==
  (sigCount > 0 /\ ~Alive) => disconnectCalled

\* C9 (amended): a signal delivered after signal.Notify has registered the
\* channel is followed by a call of client.Disconnect(), and the process
\* does not end before that call.
C9_CaughtSignalDisconnects ==
  /\ [](sigCaught => <>disconnectCalled)
  /\ []((sigCaught /\ ~Alive) => disconnectCalled)

C9_Witness ==
  /\ sigCaught /\ disconnectCalled /\ mainPc = "exited"
  /\ sigCount = 1

\* ------------------------------------------------------------------ C10
\* C10: under any interleaving of the handlers of distinct events, every
\* SendMessage call is addressed to the chat of the event whose handler
\* made it and quotes that event's message ID, sender and message, carries
\* the text that handler built, and each event causes at most one call.
C10_RepliesBelongToEvent ==
  /\ \A i \in 1..Len(outbox) :
       LET m == outbox[i]
           v == evt[m.by]
       IN  /\ m.to = v.info.chat
           /\ m.stanzaID = v.info.id
           /\ m.participant = v.info.sender
           /\ m.quoted = v.message
           /\ m.text = text[m.by]
           /\ pc[m.by] = "done"
  /\ \A i, j \in 1..Len(outbox) :
       (outbox[i].by = outbox[j].by \/ outbox[i].stanzaID = outbox[j].stanzaID)
         => i = j

C10_Witness ==
  /\ Len(outbox) = 2
  /\ outbox[1].by = 2 /\ outbox[2].by = 1
  /\ outbox[1].to # outbox[2].to
  /\ outbox[1].participant # outbox[2].participant
  /\ outbox[1].text # outbox[2].text

====
